---- MODULE Spec2Model ----
(***************************************************************************)
(* Model of main.py: the upload handler process_file, the artifact writer  *)
(* save_message_to_file and the URL extractor extract_urls_from_response.  *)
(*                                                                         *)
(* A Python string is a sequence of chunks; a chunk is a TLA+ string that  *)
(* stands for one or more characters ("Relevant URLs:" and "<a href=" are  *)
(* chunks, as is every single character the model needs).  The empty       *)
(* string is << >>.                                                        *)
(*                                                                         *)
(* process_file is a coroutine without an await, so the event loop runs    *)
(* one request to its return before the next one starts: requests are      *)
(* served back to back.  The wall clock may advance between any two steps. *)
(***************************************************************************)
EXTENDS Integers, Sequences, FiniteSets, TLC

VARIABLES
    clock,          \* datetime.now(), in whole seconds
    output,         \* the directory output/    : file name -> content
    messages,       \* the directory messages/  : file name -> content
    pc,             \* the handler: "idle", "rows", "waiting", "done"
    served,         \* number of requests that have returned
    file,           \* the upload of the request being served
    df,             \* its DataFrame
    prepared,       \* df as it was after column preparation (lines 118-129)
    index,          \* the row the loop of line 135 is at
    calls,          \* the questions posted to the API by this request
    outcomes,       \* per row, what the remote call answered ("none" if no call)
    result,         \* what the request returns
    ok200,          \* number of rows, of all requests, answered with HTTP 200
    writes,         \* number of files written, of all requests, per directory
    text,           \* input of extract_urls_from_response  (SpecExtract)
    extracted       \* its result                            (SpecExtract)

vars == <<clock, output, messages, pc, served, file, df, prepared, index, calls,
          outcomes, result, ok200, writes, text, extracted>>

-----------------------------------------------------------------------------
(* Bounds *)

MaxRequests == 2
MaxRows == 2
MaxClock == 1
MaxLen == 6

-----------------------------------------------------------------------------
(* Strings *)

Min(a, b) == IF a < b THEN a ELSE b

Range(s) == {s[i] : i \in DOMAIN s}

\* str.isalnum() of one character
AlNum == {"Q", "a", "b", "u", "v", "7"}

Whitespace == {" "}

\* str.strip()
RECURSIVE Strip(_)
Strip(s) ==
    IF s = << >> THEN s
    ELSE IF Head(s) \in Whitespace THEN Strip(Tail(s))
    ELSE IF s[Len(s)] \in Whitespace THEN Strip(SubSeq(s, 1, Len(s) - 1))
    ELSE s

\* str.lower() of a file extension
Lower(e) ==
    CASE e = ".CSV" -> ".csv"
      [] e = ".XLSX" -> ".xlsx"
      [] e = ".TXT" -> ".txt"
      [] OTHER -> e

\* strftime("%Y%m%d_%H%M%S"): one string per second
strftime(t) == <<ToString(t)>>

-----------------------------------------------------------------------------
(* extract_urls_from_response *)

Marker == "Relevant URLs:"
AnchorOpen == "<a href="
Quotes == {"\"", "'"}

\* the least i with s[i] in S, or 0
FirstIn(s, S) ==
    IF \E i \in DOMAIN s : s[i] \in S
    THEN CHOOSE i \in DOMAIN s : s[i] \in S /\ \A j \in 1..(i - 1) : s[j] \notin S
    ELSE 0

\* response_text.split("Relevant URLs:")
RECURSIVE Split(_)
Split(s) ==
    LET i == FirstIn(s, {Marker})
    IN  IF i = 0 THEN <<s>>
        ELSE <<SubSeq(s, 1, i - 1)>> \o Split(SubSeq(s, i + 1, Len(s)))

\* re.findall(r'<a href=["\']([^"\']+)["\']', s): the captures, left to right,
\* of the non-overlapping matches
RECURSIVE FindAll(_)
FindAll(s) ==
    IF Len(s) < 4 THEN << >>
    ELSE IF s[1] = AnchorOpen /\ s[2] \in Quotes
         THEN LET rest == SubSeq(s, 3, Len(s))
                  j == FirstIn(rest, Quotes)
              IN  IF j >= 2
                  THEN <<SubSeq(rest, 1, j - 1)>> \o FindAll(SubSeq(rest, j + 1, Len(rest)))
                  ELSE FindAll(Tail(s))
         ELSE FindAll(Tail(s))

\* lines 41-43: the section scanned and the captures found in it
urls_section(split_text) == split_text[2]

\* lines 35-45; list(set(urls)) is returned as the set, its order is chosen
\* where the list is joined
extract_urls_from_response(response_text) ==
    LET split_text == Split(response_text)
    IN  IF Len(split_text) < 2 THEN {}
        ELSE Range(FindAll(urls_section(split_text)))

-----------------------------------------------------------------------------
(* Values of the batch *)

\* a cell of the Question column as pandas loads it
NaN == [kind |-> "nan", val |-> << >>]
Num == [kind |-> "num", val |-> <<"7">>]
Str(s) == [kind |-> "str", val |-> s]

QuestionCells ==
    {NaN, Num, Str(<< >>), Str(<<" ", " ">>), Str(<<"Q", "?">>)}

\* the placeholder of lines 125 and 128, and a value the uploaded file
\* already holds in row i of a derived column
Placeholder == << >>
Present(i) == <<"old", ToString(i)>>

NoURL == <<"No URL found">>
ErrAPI == <<"Error: Failed to get response from API">>
ErrRequest == <<"Error: API request failed">>
ErrUnsupported == <<"Unsupported file format. Upload Excel or CSV files.">>
ErrNoQuestion == <<"The uploaded file must contain a 'Question' column.">>

\* what requests.post can produce
Absent == [kind |-> "absent", val |-> << >>]
Null == [kind |-> "null", val |-> << >>]
NoBody == [shape |-> "invalid", message |-> Absent]
Object(m) == [shape |-> "object", message |-> m]
NoCall == [net |-> "none", status |-> 0, body |-> NoBody]
TransportFailure == [net |-> "fail", status |-> 0, body |-> NoBody]
Http(st, b) == [net |-> "ok", status |-> st, body |-> b]

Messages ==
    { << >>,
      <<"a", "b">>,
      <<"a", Marker, AnchorOpen, "\"", "u", "\"", "b", AnchorOpen, "'", "v", "'">> }

Bodies ==
    {NoBody, [shape |-> "array", message |-> Absent], Object(Absent), Object(Null)}
        \cup {Object(Str(m)) : m \in Messages}

Outcomes ==
    {TransportFailure, Http(500, NoBody)}
        \cup {Http(200, b) : b \in Bodies}

Tables(cells, n) == UNION {[1..k -> cells] : k \in 0..n}

\* an upload: file.filename (stem and extension), whether pandas can parse the
\* bytes, the header of the column the cells are under, the derived columns
\* the file already has, the cells
UploadsOf(stems, exts, parses, headers, has, cells) ==
    [stem : stems, ext : exts, parses : parses, header : headers, has : has,
     rows : Tables(cells, MaxRows)]

Uploads ==
    UploadsOf({<<"a">>}, {".csv", ".XLSX"}, {TRUE}, {"Question"},
              SUBSET {"Extracted Text", "Extracted URL"}, QuestionCells)
    \cup UploadsOf({<<"a">>}, {".csv"}, {TRUE, FALSE}, {"Topic"}, {{}},
                   {Str(<<"Q", "?">>)})
    \cup UploadsOf({<<"a">>, <<"d", "/", "a">>}, {".txt", ".csv"}, {TRUE},
                   {"Question"}, {{}}, {Str(<<"Q", "?">>)})

-----------------------------------------------------------------------------
(* Helpers of the handler *)

\* open(path, "w") and write: creates the file or replaces its content
WriteFile(dir, name, content) ==
    [n \in DOMAIN dir \cup {name} |-> IF n = name THEN content ELSE dir[n]]

\* line 51
SanitizeLen == 30
Sanitize(question) ==
    SubSeq([i \in DOMAIN question |->
               IF question[i] \in AlNum THEN question[i] ELSE "_"],
           1, Min(Len(question), SanitizeLen))

\* lines 50-53: the artifact's file name
ArtifactName(question, now) ==
    Sanitize(question) \o <<"_">> \o strftime(now) \o <<".json">>

\* lines 165: the processed file's name
OutputName(now, ext) == <<"processed_">> \o strftime(now) \o <<ext>>

\* line 90
Ext(fname) == Lower(fname.ext)

\* lines 91-97 without the else branch
SupportedFormat_Any(fname) == TRUE

\* lines 91-97
SupportedFormat(fname) == Ext(fname) \in {".xlsx", ".csv"}

\* line 84: the path under output/
WorkingName(fname) == fname.stem \o <<fname.ext>>

\* line 85: open() creates no directory, so a file name with a directory part
\* cannot be created under output/
CanCreate(fname) == "/" \notin Range(fname.stem)

\* line 100 with the condition dropped
HasQuestionColumn_Unchecked(fname) == TRUE

\* line 100
HasQuestionColumn(fname) == fname.header = "Question"

\* line 137 without strip(): not pd.isna(question) and question
Evaluated_NoStrip(question) ==
    CASE question.kind = "nan" -> "skip"
      [] question.kind = "num" -> "call"
      [] OTHER -> IF question.val = << >> THEN "skip" ELSE "call"

\* line 137: not pd.isna(question) and question.strip(); "raise" when
\* question has no strip()
Evaluated(question) ==
    CASE question.kind = "nan" -> "skip"
      [] question.kind = "num" -> "raise"
      [] OTHER -> IF Strip(question.val) = << >> THEN "skip" ELSE "call"

\* "\n".join(urls)
RECURSIVE Join(_)
Join(urls) ==
    IF urls = << >> THEN << >>
    ELSE IF Len(urls) = 1 THEN urls[1]
    ELSE urls[1] \o <<"\n">> \o Join(Tail(urls))

\* list(set(urls)): the orders a set can be listed in
Listings(S) == {f \in [1..Cardinality(S) -> S] : Range(f) = S}

\* lines 124-129, applied to the loaded table
PrepareColumns(u) ==
    [i \in DOMAIN u.rows |->
        [Question |-> u.rows[i],
         ExtractedText |-> IF "Extracted Text" \in u.has THEN Present(i) ELSE Placeholder,
         ExtractedURL |-> IF "Extracted URL" \in u.has THEN Present(i) ELSE Placeholder]]

\* df.at[index, ...] = ... of lines 149-150, 157-158, 161-162
SetDerived(d, i, t, url) ==
    [d EXCEPT ![i].ExtractedText = t, ![i].ExtractedURL = url]

NoFile ==
    [stem |-> << >>, ext |-> "", parses |-> FALSE, header |-> "", has |-> {},
     rows |-> << >>]
NoResult == [kind |-> "none", value |-> << >>]
ErrorResult(msg) == [kind |-> "error", value |-> msg]
FileResult(name) == [kind |-> "file", value |-> name]

-----------------------------------------------------------------------------
(* The handler process_file *)

Init ==
    /\ clock = 0
    /\ output = << >>
    /\ messages = << >>
    /\ pc = "idle"
    /\ served = 0
    /\ file = NoFile
    /\ df = << >>
    /\ prepared = << >>
    /\ index = 1
    /\ calls = << >>
    /\ outcomes = << >>
    /\ result = NoResult
    /\ ok200 = 0
    /\ writes = [output |-> 0, messages |-> 0]
    /\ text = << >>
    /\ extracted = [done |-> FALSE, urls |-> {}]

\* datetime.now() moves on
Tick ==
    /\ clock < MaxClock
    /\ clock' = clock + 1
    /\ UNCHANGED <<output, messages, pc, served, file, df, prepared, index, calls,
                   outcomes, result, ok200, writes, text, extracted>>

\* lines 175-177: the handler returns {"error": str(e)}
Raise(msg) ==
    /\ pc' = "done"
    /\ result' = ErrorResult(msg)

\* the request ends before a DataFrame is prepared
NoTable ==
    /\ df' = << >>
    /\ prepared' = << >>
    /\ outcomes' = << >>

\* lines 80-129: save the upload, load it, require and prepare the columns
Upload(u) ==
    /\ pc = "idle"
    /\ file' = u
    /\ calls' = << >>
    /\ index' = 1
    /\ UNCHANGED <<clock, messages, served, ok200, text, extracted>>
    /\ IF ~CanCreate(u)
       THEN \* open() of line 85 raises
            /\ Raise(<<"FileNotFoundError">>)
            /\ NoTable
            /\ UNCHANGED <<output, writes>>
       ELSE /\ output' = WriteFile(output, WorkingName(u),
                                   [kind |-> "upload", request |-> served + 1, row |-> 0])
            /\ writes' = [writes EXCEPT !.output = @ + 1]
            /\ IF ~SupportedFormat(u)
               THEN /\ pc' = "done"
                    /\ result' = ErrorResult(ErrUnsupported)
                    /\ NoTable
               ELSE IF ~u.parses
               THEN \* pd.read_excel / pd.read_csv raises
                    /\ Raise(<<"ParserError">>)
                    /\ NoTable
               ELSE IF ~HasQuestionColumn(u)
               THEN /\ pc' = "done"
                    /\ result' = ErrorResult(ErrNoQuestion)
                    /\ NoTable
               ELSE /\ pc' = "rows"
                    /\ result' = NoResult
                    /\ df' = PrepareColumns(u)
                    /\ prepared' = PrepareColumns(u)
                    /\ outcomes' = [i \in DOMAIN u.rows |-> NoCall]

\* lines 135-142: the loop reaches a row; a blank question is skipped, any
\* other is posted to the API
RowBegin ==
    /\ pc = "rows"
    /\ index <= Len(df)
    /\ UNCHANGED <<clock, output, messages, served, file, df, prepared, outcomes,
                   ok200, writes, text, extracted>>
    /\ LET question == df[index].Question
           todo == Evaluated(question)
       IN  CASE todo = "skip" ->
                    /\ index' = index + 1
                    /\ UNCHANGED <<pc, calls, result>>
             [] todo = "raise" ->
                    /\ Raise(<<"AttributeError: strip">>)
                    /\ UNCHANGED <<index, calls>>
             [] OTHER ->
                    /\ pc' = "waiting"
                    /\ calls' = Append(calls, question.val)
                    /\ UNCHANGED <<index, result>>

\* the row is settled, the loop goes on
NextRow ==
    /\ index' = index + 1
    /\ pc' = "rows"
    /\ UNCHANGED result

\* lines 159-162 without line 162
OnRequestException_TextOnly ==
    /\ df' = [df EXCEPT ![index].ExtractedText = ErrRequest]
    /\ NextRow
    /\ UNCHANGED <<messages, writes>>

\* lines 159-162
OnRequestException ==
    /\ df' = SetDerived(df, index, ErrRequest, NoURL)
    /\ NextRow
    /\ UNCHANGED <<messages, writes>>

\* lines 155-158 with the sentinel of line 161
OnStatus_RequestSentinel ==
    /\ df' = SetDerived(df, index, ErrRequest, NoURL)
    /\ NextRow
    /\ UNCHANGED <<messages, writes>>

\* lines 155-158
OnStatus ==
    /\ df' = SetDerived(df, index, ErrAPI, NoURL)
    /\ NextRow
    /\ UNCHANGED <<messages, writes>>

\* lines 48-69: created tells whether open() of line 65 succeeds
save_message_to_file(question, created) ==
    IF created
    THEN /\ messages' = WriteFile(messages, ArtifactName(question, clock),
                                  [kind |-> "artifact", request |-> served + 1,
                                   row |-> index])
         /\ writes' = [writes EXCEPT !.messages = @ + 1]
         /\ NextRow
    ELSE /\ Raise(<<"OSError: messages">>)
         /\ UNCHANGED <<index, messages, writes>>

\* lines 144-154
OnOK(body, wrapsJSON, created) ==
    IF body.shape = "invalid"
    THEN \* response.json() raises JSONDecodeError
         IF wrapsJSON
         THEN OnRequestException
         ELSE /\ Raise(<<"JSONDecodeError">>)
              /\ UNCHANGED <<df, index, messages, writes>>
    ELSE IF body.shape # "object"
    THEN \* response_json.get raises
         /\ Raise(<<"AttributeError: get">>)
         /\ UNCHANGED <<df, index, messages, writes>>
    ELSE IF body.message.kind = "null"
    THEN \* response_text.split raises
         /\ Raise(<<"AttributeError: split">>)
         /\ UNCHANGED <<df, index, messages, writes>>
    ELSE LET response_text == body.message.val
         IN  \E extracted_urls \in Listings(extract_urls_from_response(response_text)) :
                /\ df' = SetDerived(df, index, response_text,
                                    IF extracted_urls # << >>
                                    THEN Join(extracted_urls) ELSE NoURL)
                /\ save_message_to_file(df[index].Question.val, created)

\* lines 142-162: the call of line 142 returns or raises.  wrapsJSON: the
\* installed requests library derives JSONDecodeError from RequestException
\* (it does from version 2.27 on)
RowResponse(o, wrapsJSON, created) ==
    /\ pc = "waiting"
    /\ outcomes' = [outcomes EXCEPT ![index] = o]
    /\ ok200' = IF o.net = "ok" /\ o.status = 200 THEN ok200 + 1 ELSE ok200
    /\ UNCHANGED <<clock, output, served, file, prepared, calls, text, extracted>>
    /\ IF o.net = "fail" THEN OnRequestException
       ELSE IF o.status = 200 THEN OnOK(o.body, wrapsJSON, created)
       ELSE OnStatus

\* lines 164-173: every row has been visited; created tells whether the
\* processed file can be written
SaveProcessed(created) ==
    /\ pc = "rows"
    /\ index > Len(df)
    /\ UNCHANGED <<clock, messages, served, file, df, prepared, index, calls,
                   outcomes, ok200, text, extracted>>
    /\ IF created
       THEN /\ output' = WriteFile(output, OutputName(clock, Ext(file)),
                                   [kind |-> "processed", request |-> served + 1, row |-> 0])
            /\ writes' = [writes EXCEPT !.output = @ + 1]
            /\ pc' = "done"
            /\ result' = FileResult(OutputName(clock, Ext(file)))
       ELSE /\ Raise(<<"OSError: output">>)
            /\ UNCHANGED <<output, writes>>

\* the handler has returned: its locals are gone, the server is ready for the
\* next request
Return ==
    /\ pc = "done"
    /\ pc' = "idle"
    /\ served' = served + 1
    /\ file' = NoFile
    /\ df' = << >>
    /\ prepared' = << >>
    /\ index' = 1
    /\ calls' = << >>
    /\ outcomes' = << >>
    /\ result' = NoResult
    /\ UNCHANGED <<clock, output, messages, ok200, writes, text, extracted>>

-----------------------------------------------------------------------------
(* Spec: one request on a freshly started server *)

FirstUpload == served = 0 /\ \E u \in Uploads : Upload(u)

Response ==
    \E o \in Outcomes, wrapsJSON \in BOOLEAN, created \in BOOLEAN :
        RowResponse(o, wrapsJSON, created)

Save == \E created \in BOOLEAN : SaveProcessed(created)

Next ==
    \/ Tick
    \/ FirstUpload
    \/ RowBegin
    \/ Response
    \/ Save
    \/ Return

Spec == Init /\ [][Next]_vars

-----------------------------------------------------------------------------
(* SpecServer: MaxRequests requests, served back to back *)

ServerUploads ==
    UploadsOf({<<"a">>}, {".csv", ".txt"}, {TRUE}, {"Question"}, {{}},
              {Str(<<"Q", "?">>), Str(<<"Q", "!">>)})

ServerOutcomes == {TransportFailure, Http(200, Object(Absent))}

AnyUpload == served < MaxRequests /\ \E u \in ServerUploads : Upload(u)

ServerResponse == \E o \in ServerOutcomes : RowResponse(o, TRUE, TRUE)

ServerSave == SaveProcessed(TRUE)

NextServer ==
    \/ Tick
    \/ AnyUpload
    \/ RowBegin
    \/ ServerResponse
    \/ ServerSave
    \/ Return

SpecServer == Init /\ [][NextServer]_vars

-----------------------------------------------------------------------------
(* SpecExtract: extract_urls_from_response on every text of up to MaxLen chunks *)

Chunks == {Marker, AnchorOpen, "\"", "'", "u"}

Type(c) ==
    /\ ~extracted.done
    /\ Len(text) < MaxLen
    /\ text' = Append(text, c)
    /\ UNCHANGED <<clock, output, messages, pc, served, file, df, prepared, index,
                   calls, outcomes, result, ok200, writes, extracted>>

Extract ==
    /\ ~extracted.done
    /\ extracted' = [done |-> TRUE, urls |-> extract_urls_from_response(text)]
    /\ UNCHANGED <<clock, output, messages, pc, served, file, df, prepared, index,
                   calls, outcomes, result, ok200, writes, text>>

TypeAny == \E c \in Chunks : Type(c)

NextExtract ==
    \/ TypeAny
    \/ Extract

SpecExtract == Init /\ [][NextExtract]_vars

-----------------------------------------------------------------------------
(* Vocabulary of the claims, stated without the handler's own helpers *)

\* the request got as far as the row loop: the working copy was saved, the
\* format is .xlsx or .csv, the file parsed and has a Question column
Accepted ==
    /\ "/" \notin Range(file.stem)
    /\ file.ext \in {".csv", ".CSV", ".xlsx", ".XLSX"}
    /\ file.parses
    /\ file.header = "Question"

\* the handler returned the processed file
Completed == pc = "done" /\ result.kind = "file"

\* a Question that is NaN, empty or whitespace only
Blank(cell) ==
    \/ cell.kind = "nan"
    \/ cell.kind = "str" /\ \A i \in DOMAIN cell.val : cell.val[i] = " "

AllText == \A i \in DOMAIN file.rows : file.rows[i].kind # "num"

\* every HTTP 200 answer so far carried a JSON object
ObjectBodies ==
    \A i \in DOMAIN outcomes :
        (outcomes[i].net = "ok" /\ outcomes[i].status = 200)
            => outcomes[i].body.shape = "object"

\* files of a directory written by the request being served
Mine(dir) == {n \in DOMAIN dir : dir[n].request = served + 1}

-----------------------------------------------------------------------------
(* C1 *)

\* C1: once row processing has begun, the handler never aborts: for a table
\* with a Question column (of text cells), whatever each row's remote call
\* answers (here: a transport failure, a non-200 status, or HTTP 200 with any
\* JSON object) and whether or not the artifact can be written, every row is
\* visited and the processed file is written and returned.
C1_NeverAbortsOnceRowsBegin ==
    (/\ pc = "done" /\ Accepted /\ AllText /\ ObjectBodies
     /\ result # ErrorResult(<<"OSError: output">>))
        => /\ result.kind = "file"
           /\ index = Len(df) + 1
           /\ result.value \in DOMAIN output

-----------------------------------------------------------------------------
(* C10 *)

\* the non-blank questions of the first n rows, in row order
RECURSIVE QuestionsOf(_, _)
QuestionsOf(rows, n) ==
    IF n = 0 THEN << >>
    ELSE IF Blank(rows[n]) THEN QuestionsOf(rows, n - 1)
    ELSE Append(QuestionsOf(rows, n - 1), rows[n].val)

\* C10: within one batch the remote calls are exactly the non-blank questions
\* of the table in row order, one call per such row, none repeated and none
\* skipped, and while a call is in flight every earlier row is settled.
C10_OneCallPerRowInOrder ==
    (Accepted /\ AllText /\ ObjectBodies) =>
        /\ pc = "done" => calls = QuestionsOf(file.rows, Len(file.rows))
        /\ pc = "rows" => calls = QuestionsOf(file.rows, index - 1)
        /\ pc = "waiting" =>
              /\ calls = QuestionsOf(file.rows, index)
              /\ \A i \in 1..(index - 1) :
                    ~Blank(file.rows[i]) =>
                        /\ outcomes[i] # NoCall
                        /\ df[i].ExtractedURL # prepared[i].ExtractedURL

-----------------------------------------------------------------------------
(* C4 *)

\* C4: artifacts correspond one to one to HTTP 200 responses: whenever every
\* row answered with HTTP 200 had its artifact written, the number of files in
\* messages/ equals the number of rows answered with HTTP 200 (no artifact
\* was written over), and every artifact of the request belongs to a row
\* answered with 200.
C4_ArtifactsOneToOne ==
    (pc # "waiting" /\ writes.messages = ok200) =>
        /\ Cardinality(DOMAIN messages) = ok200
        /\ \A n \in Mine(messages) :
              LET o == outcomes[messages[n].row]
              IN  o.net = "ok" /\ o.status = 200

-----------------------------------------------------------------------------
(* C9 *)

\* C9: across requests served back to back, every write into output/ (a
\* request's working file, its processed file) creates a new file, never
\* replacing an existing one: as many files as writes.  (A write into
\* messages/ replaces a file only when the names agree, which is the excepted
\* case of the same sanitized question within the same second.)
C9_WritesCreateNewFiles == writes.output = Cardinality(DOMAIN output)

-----------------------------------------------------------------------------
(* C5 *)

\* everything after the first occurrence of the marker
AfterFirstMarker(s) == SubSeq(s, FirstIn(s, {Marker}) + 1, Len(s))

\* C5: extract_urls_from_response returns no URL for a text without the marker,
\* and otherwise exactly the hrefs the anchor pattern captures in everything
\* after the first occurrence of the marker, later occurrences included.
C5_ScansAllAfterFirstMarker ==
    extracted.done =>
        extracted.urls = IF Marker \notin Range(text) THEN {}
                         ELSE Range(FindAll(AfterFirstMarker(text)))

-----------------------------------------------------------------------------
(* C2 *)

\* the message of a response body, the empty string if there is none
MessageOf(body) ==
    IF body.shape = "object" /\ body.message.kind = "str"
    THEN body.message.val ELSE << >>

\* the Extracted URL values a message allows
JoinedURLs(message) ==
    IF extract_urls_from_response(message) = {} THEN {NoURL}
    ELSE {Join(l) : l \in Listings(extract_urls_from_response(message))}

\* C2 as claimed: in the output of a completed batch, every non-blank row's
\* derived columns follow from its own outcome: HTTP 200 gives the message
\* (empty if absent) and the joined URLs or "No URL found", any other status
\* the API error pair, a transport failure the request error pair.
C2_DerivedFromOwnOutcome ==
    Completed =>
        \A i \in DOMAIN df :
            ~Blank(df[i].Question) =>
                LET o == outcomes[i]
                IN  /\ o.net \in {"ok", "fail"}
                    /\ o.net = "fail" =>
                          /\ df[i].ExtractedText = ErrRequest
                          /\ df[i].ExtractedURL = NoURL
                    /\ (o.net = "ok" /\ o.status # 200) =>
                          /\ df[i].ExtractedText = ErrAPI
                          /\ df[i].ExtractedURL = NoURL
                    /\ (o.net = "ok" /\ o.status = 200) =>
                          /\ df[i].ExtractedText = MessageOf(o.body)
                          /\ df[i].ExtractedURL \in JoinedURLs(MessageOf(o.body))

\* C2 amended: as claimed for HTTP 200 with a body that parses as JSON, any
\* other status and a transport failure; HTTP 200 with a body that is not JSON
\* gives, in a batch that completes, the pair of a transport failure.
C2_DerivedFromOwnOutcome_Amended ==
    Completed =>
        \A i \in DOMAIN df :
            ~Blank(df[i].Question) =>
                LET o == outcomes[i]
                    unparsable == o.net = "ok" /\ o.status = 200
                                    /\ o.body.shape = "invalid"
                IN  /\ o.net \in {"ok", "fail"}
                    /\ (o.net = "fail" \/ unparsable) =>
                          /\ df[i].ExtractedText = ErrRequest
                          /\ df[i].ExtractedURL = NoURL
                    /\ (o.net = "ok" /\ o.status # 200) =>
                          /\ df[i].ExtractedText = ErrAPI
                          /\ df[i].ExtractedURL = NoURL
                    /\ (o.net = "ok" /\ o.status = 200 /\ ~unparsable) =>
                          /\ df[i].ExtractedText = MessageOf(o.body)
                          /\ df[i].ExtractedURL \in JoinedURLs(MessageOf(o.body))

\* a completed batch of two rows: the first answered 200 with two URLs, listed
\* v before u, the second 200 with a body that is not JSON
C2_Witness ==
    /\ Completed
    /\ Len(df) = 2
    /\ outcomes[1].status = 200
    /\ df[1].ExtractedURL = <<"v", "\n", "u">>
    /\ outcomes[2] = Http(200, NoBody)
    /\ df[2].ExtractedText = ErrRequest

-----------------------------------------------------------------------------
(* C3 *)

\* C3 as claimed: in the output of a completed batch, neither derived column
\* of a non-blank row is the empty placeholder.
C3_BothPopulated ==
    Completed =>
        \A i \in DOMAIN df :
            ~Blank(df[i].Question) =>
                /\ df[i].ExtractedText # Placeholder
                /\ df[i].ExtractedURL # Placeholder

\* C3 amended: Extracted URL of a non-blank row is never the empty placeholder,
\* and Extracted Text is empty only for a row answered HTTP 200 with a JSON
\* object whose message is absent or the empty string.
C3_BothPopulated_Amended ==
    Completed =>
        \A i \in DOMAIN df :
            ~Blank(df[i].Question) =>
                /\ df[i].ExtractedURL # Placeholder
                /\ df[i].ExtractedText = Placeholder =>
                      /\ outcomes[i].net = "ok"
                      /\ outcomes[i].status = 200
                      /\ outcomes[i].body.shape = "object"
                      /\ outcomes[i].body.message \in {Absent, Str(<< >>)}

\* a completed batch with a row answered 200 without a message, in a file that
\* already had both derived columns
C3_Witness ==
    /\ Completed
    /\ \E i \in DOMAIN df :
          /\ outcomes[i] = Http(200, Object(Absent))
          /\ prepared[i].ExtractedText = Present(i)
          /\ df[i].ExtractedText = Placeholder
          /\ df[i].ExtractedURL = NoURL

-----------------------------------------------------------------------------
(* C6 *)

FormatNamed == file.ext \in {".csv", ".CSV", ".xlsx", ".XLSX"}

-----------------------------------------------------------------------------
(* C7 *)

\* C7: an upload that parses as .xlsx or .csv but has no Question column
\* returns the error naming the column, and no row is processed: no API call,
\* no artifact, no processed file.
C7_MissingQuestionColumn ==
    /\ pc \in {"rows", "waiting"} => file.header = "Question"
    /\ (pc = "done" /\ FormatNamed /\ file.parses /\ file.header # "Question") =>
          /\ result = ErrorResult(ErrNoQuestion)
          /\ calls = << >>
          /\ index = 1
          /\ Mine(messages) = {}
          /\ \A n \in Mine(output) : output[n].kind = "upload"

\* a two-row table under the header Topic has been rejected
C7_Witness ==
    /\ pc = "done"
    /\ file.header = "Topic"
    /\ file.parses
    /\ Len(file.rows) = 2
    /\ result = ErrorResult(ErrNoQuestion)

-----------------------------------------------------------------------------
(* C8 *)

\* C8: a row whose Question is NaN, empty or whitespace only gets no API call
\* and no artifact, and its derived columns stay as column preparation left
\* them: the empty placeholder, or the value the uploaded file already had.
C8_BlankRowsUntouched ==
    pc \in {"rows", "waiting", "done"} =>
        /\ \A j \in DOMAIN calls : ~Blank(Str(calls[j]))
        /\ \A i \in DOMAIN df :
              Blank(file.rows[i]) =>
                  /\ outcomes[i] = NoCall
                  /\ \A n \in Mine(messages) : messages[n].row # i
                  /\ df[i].ExtractedText =
                        IF "Extracted Text" \in file.has THEN Present(i) ELSE Placeholder
                  /\ df[i].ExtractedURL =
                        IF "Extracted URL" \in file.has THEN Present(i) ELSE Placeholder

\* a completed batch: row 1 whitespace only, in a file that already had
\* Extracted Text; row 2 answered 200 and saved
C8_Witness ==
    /\ Completed
    /\ Len(df) = 2
    /\ file.rows[1] = Str(<<" ", " ">>)
    /\ file.has = {"Extracted Text"}
    /\ df[1].ExtractedText = Present(1)
    /\ df[1].ExtractedURL = Placeholder
    /\ outcomes[2].status = 200
    /\ Cardinality(Mine(messages)) = 1

====
